---- MODULE Spec2Model ----
(***************************************************************************)
(* Model of the Task API service (docker/api/src/main.py, logger.py):      *)
(* the startup schema bootstrap (lifespan), the timing/context middleware  *)
(* (request_middleware), the three handlers (health_check, create_task,    *)
(* list_tasks) and the structured logger.  The relational store is         *)
(* modelled by the `tasks` table and its SERIAL sequence, as declared by    *)
(* the bootstrap SQL.  Every awaited store call (connect, statement,       *)
(* close) is one step that the store may fail.                             *)
(***************************************************************************)
EXTENDS Naturals, Sequences, FiniteSets, TLC

\* ------------------------------------------------------------------ bounds
\* Total number of requests ever admitted (also bounds the uuid counter).
MaxRequests == 3
\* Number of requests handled concurrently.
MaxInFlight == 2

\* --------------------------------------------------------------- markers
ABSENT == "<absent>"      \* a field, header or query parameter not supplied
NULL == "<null>"          \* Python None / SQL NULL
NoError == "<none>"       \* no exception

VARIABLES
    lifespan,     \* startup/shutdown: [pc, conn, err]
    tableExists,  \* the tasks table has been created
    tasks,        \* rows of the tasks table
    nextId,       \* next value of the SERIAL sequence of tasks.id
    nextUuid,     \* source of fresh request identifiers (uuid.uuid4)
    reqs,         \* requests in flight (set of request records)
    sent,         \* the request completed last, with its outcome (at most one)
    appLog,       \* events logged through the module-level logger
    returned      \* history: <<id, user_id>> of every task returned with 200

vars == <<lifespan, tableExists, tasks, nextId, nextUuid, reqs, sent, appLog, returned>>

\* --------------------------------------------------------------- helpers
Merge(f, g) == [k \in (DOMAIN f) \cup (DOMAIN g) |-> IF k \in DOMAIN g THEN g[k] ELSE f[k]]

\* ----------------------------------------------------- structured logger
\* SimpleJsonFormatter.add_fields: the record's message and extra attributes,
\* then timestamp, level and logger name.
add_fields(level, msg, extra) ==
    Merge(Merge("message" :> msg, extra),
          ("timestamp" :> "utc-now" @@ "level" :> level @@ "logger" :> "task-api"))

\* A call on the module-level logger, logger.info(msg, extra=extra): the
\* event written (fields) and the extra mapping the caller gave (given).
LoggerLog(level, msg, extra) ==
    [given |-> extra, fields |-> add_fields(level, msg, extra)]

\* LoggerAdapter(logger, extra_context).process: the adapter is constructed
\* without merge_extra, so the adapter's context replaces the extra mapping
\* passed at the call site.
LoggerAdapter_process(extra_context, extra) == extra_context

\* A call on request.state.logger.
AdapterLog(extra_context, level, msg, extra) ==
    [given |-> extra,
     fields |-> add_fields(level, msg, LoggerAdapter_process(extra_context, extra))]

\* ------------------------------------------------------------- the inputs
\* The requests drawn: title, description and user_id are the JSON body of
\* POST /tasks; user_id is the query parameter of GET /tasks; x_user_id is the
\* X-User-ID header.
Requests ==
    { [method |-> "GET",  path |-> "/health", title |-> ABSENT, description |-> NULL,
       user_id |-> ABSENT, x_user_id |-> ABSENT],
      [method |-> "POST", path |-> "/tasks", title |-> "Buy milk", description |-> "2 litres",
       user_id |-> "u1", x_user_id |-> ABSENT],
      [method |-> "POST", path |-> "/tasks", title |-> "", description |-> NULL,
       user_id |-> "u2", x_user_id |-> "u2"],
      [method |-> "POST", path |-> "/tasks", title |-> "Buy milk", description |-> NULL,
       user_id |-> ABSENT, x_user_id |-> ABSENT],
      [method |-> "GET",  path |-> "/tasks", title |-> ABSENT, description |-> NULL,
       user_id |-> "u1", x_user_id |-> ABSENT],
      [method |-> "GET",  path |-> "/tasks", title |-> ABSENT, description |-> NULL,
       user_id |-> ABSENT, x_user_id |-> ABSENT] }

\* A failure of the handler chain that no handler converts does not depend on
\* the request; it is drawn for one input.
ChainMayRaise(inp) == inp.path = "/health"

IsCreate(r) == r.inp.method = "POST" /\ r.inp.path = "/tasks"
IsList(r) == r.inp.method = "GET"  /\ r.inp.path = "/tasks"
IsHealth(r) == r.inp.path = "/health"

\* ------------------------------------------------------------ responses
NoResponse == [status |-> 0, body |-> <<>>, detail |-> <<>>, headers |-> <<>>]

Response(status, body, detail) ==
    [status |-> status, body |-> body, detail |-> detail, headers |-> <<>>]

\* Task (BaseModel): title: str, description: str | None = None, user_id: str.
TaskValid(inp) == inp.title # ABSENT /\ inp.user_id # ABSENT

\* list_tasks(user_id: str): the query parameter is required.
ListValid(inp) == inp.user_id # ABSENT

\* TaskResponse built from a row.
TaskResponse(row) ==
    [id |-> row.id, title |-> row.title, description |-> row.description,
     status |-> row.status, user_id |-> row.user_id]

\* ---------------------------------------------------------- the store
\* Faulty variant: the status column has no default.
InsertRow_NoDefaultStatus(id, inp) ==
    [id |-> id, title |-> inp.title, description |-> inp.description,
     status |-> NULL, user_id |-> inp.user_id]

\* INSERT INTO tasks (title, description, user_id) ... RETURNING ...:
\* id from the SERIAL sequence, status from DEFAULT 'pending'.
InsertRow(id, inp) ==
    [id |-> id, title |-> inp.title, description |-> inp.description,
     status |-> "pending", user_id |-> inp.user_id]

RECURSIVE OrderByIdDesc(_)
OrderByIdDesc(rows) ==
    IF rows = {} THEN <<>>
    ELSE LET top == CHOOSE x \in rows : \A y \in rows : y.id <= x.id
         IN  <<top>> \o OrderByIdDesc(rows \ {top})

\* Faulty variant: the WHERE clause is lost.
SelectTasks_AllUsers(rows, user_id) == OrderByIdDesc(rows)

\* SELECT ... FROM tasks WHERE user_id = $1 ORDER BY id DESC
SelectTasks(rows, user_id) == OrderByIdDesc({row \in rows : row.user_id = user_id})

\* ids of the tasks returned so far to successful creates for a user
ReturnedIds(user_id) == {returned[i][1] : i \in {j \in DOMAIN returned : returned[j][2] = user_id}}

\* ------------------------------------------------------------- lifespan
Init ==
    /\ lifespan = [pc |-> "connect", conn |-> "none", err |-> NoError]
    /\ tableExists = FALSE
    /\ tasks = {}
    /\ nextId = 1
    /\ nextUuid = 1
    /\ reqs = {}
    /\ sent = {}
    /\ appLog = <<>>
    /\ returned = <<>>

DbExtra == ("database" :> "taskdb" @@ "host" :> "postgres" @@ "component" :> "database")

\* Faulty variant: the bootstrap failure aborts startup.
LifespanExcept_Abort(l, e) == [l EXCEPT !.pc = "aborted", !.err = e]

\* except Exception as e: logger.error(...); then fall through to yield.
LifespanExcept(l, e) == [l EXCEPT !.pc = "except", !.err = e]

\* conn = await asyncpg.connect(...)
LifespanConnect(ok) ==
    /\ lifespan.pc = "connect"
    /\ lifespan' = IF ok THEN [lifespan EXCEPT !.pc = "execute", !.conn = "open"]
                   ELSE LifespanExcept(lifespan, "ConnectionError")
    /\ UNCHANGED <<tableExists, tasks, nextId, nextUuid, reqs, sent, appLog, returned>>

\* await conn.execute(sql): CREATE TABLE IF NOT EXISTS tasks ...; CREATE INDEX ...
LifespanExecute(ok) ==
    /\ lifespan.pc = "execute"
    /\ lifespan' = IF ok THEN [lifespan EXCEPT !.pc = "close"]
                   ELSE LifespanExcept(lifespan, "SchemaError")
    /\ tableExists' = (tableExists \/ ok)
    /\ UNCHANGED <<tasks, nextId, nextUuid, reqs, sent, appLog, returned>>

\* await conn.close(); logger.info("Database initialized successfully"); yield
LifespanClose(ok) ==
    /\ lifespan.pc = "close"
    /\ IF ok
       THEN /\ lifespan' = [lifespan EXCEPT !.pc = "serving", !.conn = "closed"]
            /\ appLog' = Append(appLog,
                   LoggerLog("INFO", <<"Database initialized successfully">>, DbExtra))
       ELSE /\ lifespan' = LifespanExcept([lifespan EXCEPT !.conn = "closed"], "CloseError")
            /\ UNCHANGED appLog
    /\ UNCHANGED <<tableExists, tasks, nextId, nextUuid, reqs, sent, returned>>

\* The except block of lifespan: log the error, then yield (server is running).
LifespanLogFailure ==
    /\ lifespan.pc = "except"
    /\ appLog' = Append(appLog,
           LoggerLog("ERROR", <<"Database initialization failed: ", lifespan.err>>,
                     Merge(DbExtra, "error_details" :> lifespan.err)))
    /\ lifespan' = [lifespan EXCEPT !.pc = "serving"]
    /\ UNCHANGED <<tableExists, tasks, nextId, nextUuid, reqs, sent, returned>>

\* After yield: logger.info("Service shutting down").
LifespanShutdown ==
    /\ lifespan.pc = "serving"
    /\ reqs = {}
    /\ appLog' = Append(appLog,
           LoggerLog("INFO", <<"Service shutting down">>, "component" :> "application"))
    /\ lifespan' = [lifespan EXCEPT !.pc = "stopped"]
    /\ UNCHANGED <<tableExists, tasks, nextId, nextUuid, reqs, sent, returned>>

\* ------------------------------------------------- request_middleware
\* user_id = request.headers["X-User-ID"] if present, else the user_id query
\* parameter if present (a POST body is not consulted).
ContextUserId(inp) ==
    IF inp.x_user_id # ABSENT THEN inp.x_user_id
    ELSE IF inp.method = "GET" /\ inp.user_id # ABSENT THEN inp.user_id
    ELSE NULL

\* extra_context: request_id, path, method, and user_id if truthy.
ExtraContext(request_id, inp) ==
    LET base == ("request_id" :> request_id @@ "path" :> inp.path @@ "method" :> inp.method)
        user_id == ContextUserId(inp)
    IN  IF user_id # NULL /\ user_id # "" THEN Merge(base, "user_id" :> user_id) ELSE base

NewRequest(request_id, inp) ==
    [rid |-> request_id, inp |-> inp, pc |-> "chain",
     ctx |-> ExtraContext(request_id, inp),
     conn |-> "none", connects |-> 0, stmts |-> 0,
     rows |-> <<>>, fault |-> NoError,
     response |-> NoResponse, chainRaised |-> NoError, propagated |-> NoError,
     log |-> <<>>, trace |-> <<>>, expect |-> {}, quiet |-> FALSE]

Log(r, level, msg, extra) == [r EXCEPT !.log = Append(@, AdapterLog(r.ctx, level, msg, extra))]

\* ------------------------------------------------------------- handlers
ApiExtra(r, operation) ==
    ("user_id" :> r.inp.user_id @@ "component" :> "api" @@ "operation" :> operation)

Operation(r) == IF IsCreate(r) THEN "create_task" ELSE "list_tasks"

\* health_check: log, return the fixed payload.
health_check(r) ==
    [Log(r, "INFO", <<"Health check request received">>, "component" :> "api")
        EXCEPT !.pc = "mw_out",
               !.response = Response(200, <<[status |-> "healthy", service |-> "task-api"]>>, <<>>)]

\* Request validation failure: 422 before the handler body runs.
ValidationFailure(r) ==
    [r EXCEPT !.pc = "mw_out", !.response = Response(422, <<>>, <<"validation error">>)]

\* create_task / list_tasks up to the first await: log the intent.
HandlerBegin(r) ==
    [Log(r, "INFO",
         IF IsCreate(r) THEN <<"Creating task for user">> ELSE <<"Fetching tasks for user">>,
         ApiExtra(r, Operation(r)))
        EXCEPT !.pc = "connect"]

\* An awaited store call raised e inside the handler's try block.
Raised(r, e) == [r EXCEPT !.fault = e]

\* Faulty variant: the handler lets the failure through unconverted.
HandlerExcept_Reraise(r, e) == [r EXCEPT !.pc = "mw_out", !.chainRaised = e]

\* except Exception as e: log the error, raise HTTPException(500, f"Database error: {e}"),
\* which the framework turns into the 500 response.
HandlerExcept(r, e) ==
    [Log(r, "ERROR",
         IF IsCreate(r) THEN <<"Error creating task">> ELSE <<"Error listing tasks for user">>,
         Merge(ApiExtra(r, Operation(r)), "error" :> e))
        EXCEPT !.pc = "mw_out",
               !.response = Response(500, <<>>, <<"Database error: ", e>>)]

\* The success tail of create_task: log with the new id, return the TaskResponse.
CreateReturn(r) ==
    [Log(r, "INFO", <<"Task created successfully">>,
         Merge(ApiExtra(r, "create_task"), "task_id" :> r.rows[1].id))
        EXCEPT !.pc = "mw_out",
               !.response = Response(200, <<TaskResponse(r.rows[1])>>, <<>>)]

\* The success tail of list_tasks: log with the count, return the TaskResponses.
ListReturn(r) ==
    [Log(r, "INFO", <<"Tasks retrieved successfully">>,
         Merge(ApiExtra(r, "list_tasks"), "task_count" :> Len(r.rows)))
        EXCEPT !.pc = "mw_out",
               !.response = Response(200, [i \in DOMAIN r.rows |-> TaskResponse(r.rows[i])], <<>>)]

\* conn = await asyncpg.connect(...): the first await of create_task and of
\* list_tasks.  It touches nothing that requests share.
Connect(r, ok) ==
    LET r1 == [r EXCEPT !.connects = @ + 1]
    IN  IF ok THEN [r1 EXCEPT !.pc = "stmt", !.conn = "open"]
        ELSE HandlerExcept(Raised(r1, "ConnectionError"), "ConnectionError")

\* call_next: routing, input validation, and the handler up to its first await.
call_next(r) ==
    IF IsHealth(r) THEN health_check(r)
    ELSE IF IsCreate(r)
         THEN (IF TaskValid(r.inp) THEN HandlerBegin(r) ELSE ValidationFailure(r))
         ELSE (IF ListValid(r.inp) THEN HandlerBegin(r) ELSE ValidationFailure(r))

\* call_next raises: a failure that no handler converted reaches the middleware.
call_next_raises(r) == [r EXCEPT !.pc = "mw_out", !.chainRaised = "RuntimeError"]

\* ------------------------------------------- request_middleware, the tail
HttpExtra == ("component" :> "http" @@ "operation" :> "request")

Step(r, name) == [r EXCEPT !.trace = Append(@, name)]

\* After call_next returned: the completion event.
MiddlewareLogCompleted(r) ==
    Step(Log(r, "INFO", <<"Request completed: ", r.inp.method, r.inp.path>>,
             Merge(HttpExtra,
                   ("status_code" :> r.response.status @@ "duration_ms" :> "elapsed"
                    @@ "content_type" :> "application/json"
                    @@ "user_agent" :> "" @@ "referer" :> ""))),
         "log_completed")

\* except Exception as e: the failure event.
MiddlewareLogFailed(r) ==
    Step(Log(r, "ERROR", <<"Request failed: ", r.inp.method, r.inp.path>>,
             Merge(HttpExtra, ("duration_ms" :> "elapsed" @@ "error" :> r.chainRaised))),
         "log_failed")

\* Faulty variant: the response is returned without the header.
MiddlewareReturn_NoHeader(r) == [Step(Step(r, "set_header"), "return") EXCEPT !.pc = "done"]

\* response.headers["X-Request-ID"] = request_id; return response
MiddlewareReturn(r) ==
    [Step(Step(r, "set_header"), "return")
        EXCEPT !.pc = "done", !.response.headers = Merge(@, "X-Request-ID" :> r.rid)]

\* Faulty variant: the middleware swallows the failure and answers 500 itself.
MiddlewareRaise_Swallow(r) ==
    [Step(r, "return") EXCEPT !.pc = "done",
                              !.response = Response(500, <<>>, <<"Internal Server Error">>)]

\* raise
MiddlewareRaise(r) == [Step(r, "raise") EXCEPT !.pc = "done", !.propagated = r.chainRaised]

\* The try/except of request_middleware around call_next, once the handler
\* chain has finished (pc = "mw_out"); a request still awaiting the store is
\* left as it is.
AfterCallNext(r) ==
    IF r.pc # "mw_out" THEN r
    ELSE IF r.chainRaised = NoError THEN MiddlewareReturn(MiddlewareLogCompleted(r))
    ELSE MiddlewareRaise(MiddlewareLogFailed(r))

\* The request's state after a step of its handler; a finished request leaves
\* the set of requests in flight and is kept as the last one completed.
Replace(r, r2) ==
    LET r3 == AfterCallNext(r2)
    IN  IF r3.pc = "done"
        THEN reqs' = reqs \ {r} /\ sent' = {r3}
        ELSE reqs' = (reqs \ {r}) \cup {r3} /\ UNCHANGED sent

\* request_middleware from its first line, through call_next, to the handler's
\* connect (or to the middleware's return when the handler never awaits the
\* store): the request then waits for its statement.
request_middleware(inp, raises, ok) ==
    /\ lifespan.pc = "serving"
    /\ Cardinality(reqs) < MaxInFlight
    /\ nextUuid <= MaxRequests
    /\ raises => ChainMayRaise(inp)
    /\ LET r == Step(NewRequest(nextUuid, inp), "call_next")
           r1 == IF raises THEN call_next_raises(r) ELSE call_next(r)
       IN  Replace(r, IF r1.pc = "connect" THEN Connect(r1, ok) ELSE r1)
    /\ nextUuid' = nextUuid + 1
    /\ UNCHANGED <<lifespan, tableExists, tasks, nextId, appLog, returned>>

StatementError == IF tableExists THEN "StatementError" ELSE "UndefinedTableError"

\* result = await conn.fetchrow(INSERT ... RETURNING ...)
create_task_fetchrow(r, ok) ==
    /\ r.pc = "stmt"
    /\ IsCreate(r)
    /\ LET r1 == [r EXCEPT !.stmts = @ + 1]
           row == InsertRow(nextId, r.inp)
       IN  IF ok /\ tableExists
           THEN /\ tasks' = tasks \cup {row}
                /\ nextId' = nextId + 1
                /\ Replace(r, [r1 EXCEPT !.pc = "close", !.rows = <<row>>])
           ELSE /\ Replace(r, HandlerExcept(Raised(r1, StatementError), StatementError))
                /\ UNCHANGED <<tasks, nextId>>
    /\ UNCHANGED <<lifespan, tableExists, nextUuid, appLog, returned>>

\* Every persisted row was returned to a successful create.
StoreMatchesReturned == {row.id : row \in tasks} = {returned[i][1] : i \in DOMAIN returned}

\* rows = await conn.fetch(SELECT ... WHERE user_id = $1 ORDER BY id DESC)
list_tasks_fetch(r, ok) ==
    /\ r.pc = "stmt"
    /\ IsList(r)
    /\ LET r1 == [r EXCEPT !.stmts = @ + 1]
       IN  IF ok /\ tableExists
           THEN Replace(r, [r1 EXCEPT !.pc = "close",
                                      !.rows = SelectTasks(tasks, r.inp.user_id),
                                      !.expect = ReturnedIds(r.inp.user_id),
                                      !.quiet = StoreMatchesReturned])
           ELSE Replace(r, HandlerExcept(Raised(r1, StatementError), StatementError))
    /\ UNCHANGED <<lifespan, tableExists, tasks, nextId, nextUuid, appLog, returned>>

\* await conn.close(), then the success tail of the handler.
handler_close(r, ok) ==
    /\ r.pc = "close"
    /\ LET r1 == [r EXCEPT !.conn = "closed"]
       IN  IF ok
           THEN /\ Replace(r, IF IsCreate(r) THEN CreateReturn(r1) ELSE ListReturn(r1))
                /\ returned' = IF IsCreate(r)
                               THEN Append(returned, <<r.rows[1].id, r.rows[1].user_id>>)
                               ELSE returned
           ELSE /\ Replace(r, HandlerExcept(Raised(r1, "CloseError"), "CloseError"))
                /\ UNCHANGED returned
    /\ UNCHANGED <<lifespan, tableExists, tasks, nextId, nextUuid, appLog>>


Next ==
    \/ \E ok \in BOOLEAN : LifespanConnect(ok)
    \/ \E ok \in BOOLEAN : LifespanExecute(ok)
    \/ \E ok \in BOOLEAN : LifespanClose(ok)
    \/ LifespanLogFailure
    \/ LifespanShutdown
    \/ \E inp \in Requests, raises \in BOOLEAN, ok \in BOOLEAN : request_middleware(inp, raises, ok)
    \/ \E r \in reqs, ok \in BOOLEAN : create_task_fetchrow(r, ok)
    \/ \E r \in reqs, ok \in BOOLEAN : list_tasks_fetch(r, ok)
    \/ \E r \in reqs, ok \in BOOLEAN : handler_close(r, ok)

Spec == Init /\ [][Next]_vars

\* The statement-free part of startup: the except block and the yield involve
\* no awaited call, so once the bootstrap has failed they run to completion.
FairSpec == Spec /\ WF_vars(LifespanLogFailure)

\* ================================================================ claims
Body(r) == r.response.body
Status(r) == r.response.status
Returned(r) == r.chainRaised = NoError

\* C1: a list for user u that meets no store failure, issued when every
\* persisted task is one returned by a successful create, answers 200 with
\* exactly the tasks created for u (none of another user), by strictly
\* descending id; with no task for u the answer is the empty sequence with 200.
C1_ListReturnsUsersTasksDescending ==
    \A r \in sent :
        (IsList(r) /\ ListValid(r.inp) /\ Returned(r) /\ r.fault = NoError /\ r.quiet) =>
            /\ Status(r) = 200
            /\ {Body(r)[i].id : i \in DOMAIN Body(r)} = r.expect
            /\ Len(Body(r)) = Cardinality(r.expect)
            /\ \A i \in DOMAIN Body(r) : Body(r)[i].user_id = r.inp.user_id
            /\ \A i, j \in DOMAIN Body(r) : i < j => Body(r)[i].id > Body(r)[j].id

C1_Witness ==
    \E r \in sent :
        /\ IsList(r) /\ r.quiet /\ Status(r) = 200
        /\ Len(Body(r)) = 1
        /\ \E row \in tasks : row.user_id # r.inp.user_id

\* C2: the task returned by a successful create carries the input's title,
\* description and user_id, status "pending", and an id that no earlier
\* create returned (creates of concurrent requests included).
C2_CreateReturnsInputPendingFreshId ==
    /\ \A r \in sent :
          (IsCreate(r) /\ Status(r) = 200) =>
              /\ Len(Body(r)) = 1
              /\ Body(r)[1].title = r.inp.title
              /\ Body(r)[1].description = r.inp.description
              /\ Body(r)[1].user_id = r.inp.user_id
              /\ Body(r)[1].status = "pending"
              /\ returned[Len(returned)][1] = Body(r)[1].id
    /\ \A i, j \in DOMAIN returned : i # j => returned[i][1] # returned[j][1]

C2_Witness ==
    \E r \in sent :
        /\ IsCreate(r) /\ Status(r) = 200 /\ r.inp.description # NULL
        /\ Len(returned) = 2
        /\ \E q \in reqs : IsCreate(q) /\ q.pc = "close"

\* C3: a create whose title is empty or whose user_id is missing is answered
\* 422 before the handler body runs: no connection, no statement, no row.
C3_EmptyTitleOrMissingUserRejected ==
    \A r \in reqs \cup sent :
        (IsCreate(r) /\ Returned(r) /\ (r.inp.title = "" \/ r.inp.user_id = ABSENT)) =>
            /\ r \in sent
            /\ Status(r) = 422
            /\ r.connects = 0 /\ r.stmts = 0
            /\ \A row \in tasks : r.rows # <<row>>

\* C4 as stated: every request that went through the middleware, a failure
\* escaping the handler chain included, has a response whose X-Request-ID
\* header is the identifier generated for it, and identifiers are not shared.
C4_EveryOutcomeCarriesRequestId ==
    /\ \A r \in sent :
          /\ Status(r) # 0
          /\ "X-Request-ID" \in DOMAIN r.response.headers
          /\ r.response.headers["X-Request-ID"] = r.rid
    /\ \A r, q \in reqs \cup sent : r # q => r.rid # q.rid

\* C4 amended: every request whose handler chain returns a response (success,
\* validation failure, converted persistence failure) gets it with the
\* X-Request-ID header set to the identifier generated for the request; a
\* request whose chain raises gets no response and no header from the
\* middleware; identifiers are fresh, never shared between requests.
C4_ReturnedResponsesCarryRequestId ==
    /\ \A r \in sent :
          /\ Returned(r) =>
                /\ Status(r) # 0
                /\ "X-Request-ID" \in DOMAIN r.response.headers
                /\ r.response.headers["X-Request-ID"] = r.rid
          /\ ~Returned(r) => r.response = NoResponse
    /\ \A r \in reqs \cup sent : r.rid >= 1 /\ r.rid < nextUuid
    /\ \A r, q \in reqs \cup sent : r # q => r.rid # q.rid

C4_Witness ==
    \E r \in sent, q \in reqs :
        /\ Status(r) = 500 /\ r.fault # NoError
        /\ r.response.headers["X-Request-ID"] = r.rid
        /\ q.rid # r.rid

\* C5: a failure of connect, of the statement or of close inside create_task
\* or list_tasks ends as a 500 response whose detail holds the error text; it
\* never reaches the middleware as a failure, and the handler connects and
\* executes at most once.  A create that could not connect persists nothing.
C5_PersistenceFailureBecomes500 ==
    \A r \in reqs \cup sent :
        /\ r.connects <= 1 /\ r.stmts <= 1
        /\ r.fault # NoError =>
              /\ r \in sent
              /\ Status(r) = 500
              /\ r.response.detail = <<"Database error: ", r.fault>>
              /\ r.chainRaised = NoError /\ r.propagated = NoError
        /\ (IsCreate(r) /\ r.fault = "ConnectionError") =>
              /\ r.stmts = 0
              /\ \A row \in tasks : r.rows # <<row>>

C5_Witness ==
    \E r \in sent : IsCreate(r) /\ r.fault = "ConnectionError" /\ Status(r) = 500 /\ tableExists

\* C6: a handler that opened a connection has executed exactly one statement
\* on it and has closed it by the time it returns, on every path.
C6_ConnectionClosedOnReturn ==
    \A r \in sent :
        r.conn # "none" => (r.conn = "closed" /\ r.connects = 1 /\ r.stmts = 1)

\* What holds of a service that is serving: a failed bootstrap has logged one
\* error event; the health check answers 200 with the fixed payload without
\* connecting to the store; create and list answer 500 when the store cannot be
\* reached or has no tasks table.
C7_Serving ==
    /\ (lifespan.pc \in {"serving", "stopped"} /\ lifespan.err # NoError) =>
          Cardinality({i \in DOMAIN appLog : appLog[i].fields["level"] = "ERROR"}) = 1
    /\ reqs # {} => lifespan.pc = "serving"
    /\ \A r \in sent :
          /\ (IsHealth(r) /\ Returned(r)) =>
                /\ Status(r) = 200
                /\ Body(r) = <<[status |-> "healthy", service |-> "task-api"]>>
                /\ r.connects = 0
          /\ ((IsCreate(r) /\ TaskValid(r.inp)) \/ (IsList(r) /\ ListValid(r.inp))) =>
                ((Returned(r) /\ (~tableExists \/ r.fault = "ConnectionError")) => Status(r) = 500)

\* C7: when the schema bootstrap fails (connect or schema statement), one
\* error event is logged and startup still reaches the serving state; there
\* the health check answers 200 with the fixed payload without touching the
\* store, and create and list answer 500 while the store cannot be reached or
\* has no tasks table.
C7_BootstrapFailureNeverFatal ==
    /\ []C7_Serving
    /\ (lifespan.err # NoError /\ lifespan.pc # "stopped") ~> (lifespan.pc = "serving")

C7_Witness ==
    /\ lifespan.pc = "serving" /\ lifespan.err = "SchemaError" /\ ~tableExists
    /\ \E r \in sent : IsCreate(r) /\ Status(r) = 500 /\ r.fault = "UndefinedTableError"

\* The outcome events of a request: "Request completed" and "Request failed".
OutcomeEvents(r) ==
    {i \in DOMAIN r.log : r.log[i].fields["message"][1] \in {"Request completed: ", "Request failed: "}}

\* C8: a finished request has exactly one outcome event, logged after the
\* handler chain: the completion event (info), then the header, then the
\* return, when the chain returned; the failure event (error), then the same
\* failure re-raised and no response, when the chain raised.
C8_OneOutcomeEventThenReturnOrReraise ==
    /\ \A r \in reqs : OutcomeEvents(r) = {}
    /\ \A r \in sent :
          /\ OutcomeEvents(r) = {Len(r.log)}
          /\ Returned(r) =>
                /\ r.log[Len(r.log)].fields["level"] = "INFO"
                /\ r.log[Len(r.log)].fields["message"][1] = "Request completed: "
                /\ r.trace = <<"call_next", "log_completed", "set_header", "return">>
                /\ Status(r) # 0 /\ r.propagated = NoError
          /\ ~Returned(r) =>
                /\ r.log[Len(r.log)].fields["level"] = "ERROR"
                /\ r.log[Len(r.log)].fields["message"][1] = "Request failed: "
                /\ r.trace = <<"call_next", "log_failed", "raise">>
                /\ r.propagated = r.chainRaised /\ r.response = NoResponse

C8_Witness ==
    \E r \in sent : r.chainRaised = "RuntimeError" /\ r.propagated = "RuntimeError"

\* C9: every event logged through request.state.logger carries the request
\* context fields and the extra fields given at the call site.
C9_EventsCarryContextAndCallSiteFields ==
    \A r \in reqs \cup sent :
        \A i \in DOMAIN r.log :
            /\ \A k \in DOMAIN r.ctx :
                  k \in DOMAIN r.log[i].fields /\ r.log[i].fields[k] = r.ctx[k]
            /\ \A k \in DOMAIN r.log[i].given : k \in DOMAIN r.log[i].fields

\* C10: a create answered 500 has persisted nothing.
C10_ServerErrorPersistsNothing ==
    \A r \in sent :
        (IsCreate(r) /\ Status(r) = 500) => \A row \in tasks : r.rows # <<row>>
====
